---- MODULE Spec2Model ----
(***************************************************************************)
(* Model of bot.js: the connection lifecycle of the mineflayer bot, the    *)
(* patrol loop and the HTTP API of the dashboard.                          *)
(*                                                                         *)
(* One action of the model is one run-to-completion callback of the Node   *)
(* event loop: an HTTP handler, a bot event handler, a timer callback or   *)
(* the continuation of an async function after an await.  The timers are   *)
(* untimed: a pending timer may fire at any later moment, which includes   *)
(* every order the real delays (2 s, 3 s, 5 s, 10 s) allow.                *)
(*                                                                         *)
(* Coordinates are integers in units of 1/20 block, so that both the raw   *)
(* entity positions and their roundings to 1/10 block are integers.        *)
(***************************************************************************)
EXTENDS Integers, Sequences, FiniteSets, TLC

\* ---------------------------------------------------------------- bounds
MaxBots == 2        \* bots created by createNewBot during a run
MaxLoops == 2       \* patrol() activations that are live at the same time
MaxPending == 1     \* pending timers of one kind
RadiusBlocks == 1   \* config.patrol.radius, in blocks (config.json)

\* Units per block: positions are rounded to 1/10 block (Math.round(v*10)/10)
\* and raw positions are given at twice that resolution.
Unit == 10 * 2
MaxPort == 65535

Radius == RadiusBlocks * Unit
TeleportBuffer == 2 * Unit

\* ------------------------------------------------------- values and inputs
Pt(x, y, z) == [x |-> x, y |-> y, z |-> z]

\* JSON values of a request body, with their JavaScript type.
Num(n) == [t |-> "number", n |-> n, s |-> <<>>]
Str(s) == [t |-> "string", n |-> 0, s |-> s]
Undef == [t |-> "undefined", n |-> 0, s |-> <<>>]

\* config.patrol.centerX/Y/Z of config.json
ConfigCenter == Pt(0, 0, 0)

\* Raw entity positions the server may put the bot at.
RawPositions ==
  { Pt(1, 0, 0), Pt(59, 3, 0), Pt(45, 0, -41) }

\* Bodies of POST /api/set-center.
CenterBodies ==
  { [x |-> Num(0), y |-> Num(2), z |-> Num(0)],
    [x |-> Num(0), y |-> Num(0), z |-> Undef],
    [x |-> Str(<<"1">>), y |-> Num(0), z |-> Num(0)] }

\* Bodies of POST /api/update-server.
HostInputs ==
  { Undef, Num(7), Str(<<>>), Str(<<" ">>), Str(<<"a">>), Str(<<" ", "b", " ">>) }
PortInputs ==
  { Undef, Str(<<"1">>), Num(0), Num(1), Num(MaxPort), Num(MaxPort + 1) }

\* Math.random() * 2 * Math.PI: angles whose cosine and sine are exact, as
\* <<5 cos, 5 sin>>.
Angles == { <<5, 0>>, <<3, 4>>, <<-4, -3>> }
\* Math.random() in [0, 1), as quarters.
Fractions == { 0, 3 }

\* ------------------------------------------------------------------ state
VARIABLES
  alive,      \* the Node process is running
  config,     \* config.server: [host, port]
  botState,   \* the botState object
  bot,        \* the global bot: 0 is undefined, else the id of the latest bot
  bots,       \* the mineflayer bots created so far
  timers,     \* pending setTimeout callbacks, counted per kind
  loops,      \* the live activations of patrol(), counted per await they are at
  unhandled,  \* a rejected promise nobody handles is waiting to be reported
  lastValid,  \* the body of the most recent valid update-server request
  sticky,     \* a disconnect request came and no update-server request since
  asked,      \* an update-server or disconnect request came since the global
              \* bot was created
  last        \* what the last callback did (observations for the properties)

vars == <<alive, config, botState, bot, bots, timers, loops, unhandled,
          lastValid, sticky, asked, last>>

BotIds == 1 .. MaxBots

\* A bot object: its connection, whether bot.pathfinder and bot.entity are
\* defined, and bot.entity.position.
NoBot == [status |-> "none", pathfinder |-> FALSE, entity |-> FALSE,
          pos |-> ConfigCenter]

\* The awaits of patrol(): the goto to the random point (line 251), the
\* 2-second wait (255), the goto to the center (259), the 3-second wait (263).
NoLoops == [move1 |-> 0, wait1 |-> 0, move2 |-> 0, wait2 |-> 0]

LiveLoops == loops.move1 + loops.wait1 + loops.move2 + loops.wait2

NoTimers == [update |-> 0, reconnect |-> 0, retry |-> 0, autostart |-> 0]

\* The observation of one callback: op names it, b is the bot whose event
\* it handles, note the branch it took, create tells whether createNewBot
\* was called ("no", "ok", "threw") and opts with which options, quit is the
\* bot whose quit() was called, point is the result of getRandomPoint, goto
\* the target handed to bot.pathfinder.goto, status and body are the HTTP
\* response.
Obs(op) == [op |-> op, b |-> 0, note |-> "", create |-> "no", opts |-> <<>>,
            quit |-> 0, point |-> <<>>, goto |-> <<>>, status |-> 0, body |-> <<>>]

InitBotState ==
  [connected |-> FALSE,
   position |-> Pt(0, 0, 0),
   center |-> ConfigCenter,
   isPatrolling |-> FALSE,
   serverConfigured |-> FALSE,
   switchingServers |-> FALSE]

Live(b) == bots[b].status \in {"connecting", "spawned"}

LiveBots == { b \in BotIds : Live(b) }

\* A start that connects on its own: createNewBot() called at the end of the
\* module, before any update-server request.
Init_AutoConnect ==
  /\ alive = TRUE
  /\ config = [host |-> <<"h">>, port |-> 25565]
  /\ botState = InitBotState
  /\ bot = 1
  /\ bots = [b \in BotIds |-> IF b = 1 THEN [NoBot EXCEPT !.status = "connecting"]
                                       ELSE NoBot]
  /\ timers = NoTimers
  /\ loops = NoLoops
  /\ unhandled = FALSE
  /\ lastValid = <<>>
  /\ sticky = FALSE
  /\ asked = FALSE
  /\ last = Obs("init")

Init ==
  /\ alive = TRUE
  /\ config = [host |-> <<"h">>, port |-> 25565]
  /\ botState = InitBotState
  /\ bot = 0
  /\ bots = [b \in BotIds |-> NoBot]
  /\ timers = NoTimers
  /\ loops = NoLoops
  /\ unhandled = FALSE
  /\ lastValid = <<>>
  /\ sticky = FALSE
  /\ asked = FALSE
  /\ last = Obs("init")

\* ------------------------------------------------------- process exit
\* An exception nobody catches reaches the uncaughtException handler, which
\* rethrows everything but the chat-format error: the process exits.  Its
\* timers, its promises and its connections are gone with it.
Exit(op) ==
  /\ alive' = FALSE
  /\ botState' = InitBotState
  /\ bot' = 0
  /\ bots' = [b \in BotIds |->
               IF Live(b) THEN [bots[b] EXCEPT !.status = "ended"] ELSE bots[b]]
  /\ timers' = NoTimers
  /\ loops' = NoLoops
  /\ unhandled' = FALSE
  /\ last' = op

\* ------------------------------------------------------- createNewBot
NextBotId == Cardinality({ b \in BotIds : bots[b].status # "none" }) + 1

\* The options createNewBot hands to mineflayer.createBot.
BotOptions == [host |-> config.host, port |-> config.port]

\* bots after a createNewBot in which mineflayer.createBot returned.
BotsWithNew(bs) ==
  [bs EXCEPT ![NextBotId] = [NoBot EXCEPT !.status = "connecting"]]


\* ------------------------------------------------------- bot events
\* bot.on('end')
BotEnd(b) ==
  /\ Live(b)
  /\ ~botState.switchingServers => timers.reconnect < MaxPending
  /\ bots' = [bots EXCEPT ![b].status = "ended"]
  /\ botState' = [botState EXCEPT !.connected = FALSE,
                                  !.isPatrolling = FALSE,
                                  !.switchingServers = FALSE]
  /\ timers' = IF ~botState.switchingServers
               THEN [timers EXCEPT !.reconnect = @ + 1]
               ELSE timers
  /\ last' = [Obs("end") EXCEPT !.b = b,
                !.note = IF botState.switchingServers THEN "switching" ELSE "reconnect"]
  /\ UNCHANGED <<alive, config, bot, loops, unhandled, lastValid, sticky, asked>>

\* An 'error' handler that forgets the patrol flag.
BotError_KeepsPatrolling(b) ==
  /\ Live(b)
  /\ botState' = [botState EXCEPT !.connected = FALSE]
  /\ last' = [Obs("error") EXCEPT !.b = b]
  /\ UNCHANGED <<alive, config, bot, bots, timers, loops, unhandled,
                 lastValid, sticky, asked>>

\* bot.on('error')
BotError(b) ==
  /\ Live(b)
  /\ botState' = [botState EXCEPT !.connected = FALSE, !.isPatrolling = FALSE]
  /\ last' = [Obs("error") EXCEPT !.b = b]
  /\ UNCHANGED <<alive, config, bot, bots, timers, loops, unhandled,
                 lastValid, sticky, asked>>

\* mineflayer injects the plugins handed to bot.loadPlugin once the bot is
\* set up: from then on bot.pathfinder is defined.
PluginsInjected(b) ==
  /\ bots[b].status = "connecting"
  /\ ~bots[b].pathfinder
  /\ bots' = [bots EXCEPT ![b].pathfinder = TRUE]
  /\ last' = [Obs("inject") EXCEPT !.b = b]
  /\ UNCHANGED <<alive, config, botState, bot, timers, loops, unhandled,
                 lastValid, sticky, asked>>

\* bot.on('spawn') of bot b, placed at raw by the server.  The handler reads
\* the global bot, which is b unless a later bot was created.
BotSpawn(b, raw) ==
  /\ bots[b].status = "connecting"
  /\ bots[b].pathfinder
  /\ LET spawned == [bots EXCEPT ![b].status = "spawned",
                                 ![b].entity = TRUE,
                                 ![b].pos = raw]
     IN  IF spawned[bot].entity
         THEN /\ timers.autostart < MaxPending
              /\ bots' = spawned
              /\ botState' = [botState EXCEPT !.connected = TRUE,
                                              !.center = spawned[bot].pos]
              /\ timers' = [timers EXCEPT !.autostart = @ + 1]
              /\ last' = [Obs("spawn") EXCEPT !.b = b]
              /\ UNCHANGED <<alive, bot, loops, unhandled>>
         ELSE \* bot.entity is undefined: TypeError in the handler
              Exit([Obs("spawn") EXCEPT !.b = b, !.note = "threw"])
  /\ UNCHANGED <<config, lastValid, sticky, asked>>

\* Math.round(v * 10) / 10, on a coordinate in units of 1/20 block.
Round10(v) == 2 * ((v + 1) \div 2)

RoundedPosition(p) == Pt(Round10(p.x), Round10(p.y), Round10(p.z))

\* The square of the horizontal distance of lines 147-150.
Dist2(p, c) == (p.x - c.x) * (p.x - c.x) + (p.z - c.z) * (p.z - c.z)

\* The test without the 2-block buffer.
TeleportDetected_NoBuffer(p, c) == Dist2(p, c) > Radius * Radius

\* distance > config.patrol.radius + 2
TeleportDetected(p, c) ==
  Dist2(p, c) > (Radius + TeleportBuffer) * (Radius + TeleportBuffer)

\* bot.on('move'): the entity of bot b has moved to raw.
BotMove(b, raw) ==
  /\ bots[b].status = "spawned"
  /\ LET moved == [bots EXCEPT ![b].pos = raw]
         newPosition == RoundedPosition(moved[bot].pos)
         teleport == botState.connected /\ TeleportDetected(newPosition, botState.center)
     IN  /\ bots' = moved
         /\ botState' =
              IF moved[bot].entity
              THEN [botState EXCEPT !.position = newPosition,
                                    !.center = IF teleport THEN newPosition ELSE @]
              ELSE botState
         /\ last' = [Obs("move") EXCEPT !.b = b,
                       !.note = IF ~moved[bot].entity THEN "no entity"
                                ELSE IF teleport THEN "teleport"
                                ELSE IF botState.connected THEN "near" ELSE "offline"]
  /\ UNCHANGED <<alive, config, bot, timers, loops, unhandled, lastValid, sticky, asked>>

\* ------------------------------------------------------- timers of the lifecycle
\* The callback of the 2-second timer of update-server (lines 375-378).
UpdateTimer ==
  /\ timers.update > 0
  /\ \/ /\ NextBotId <= MaxBots
        /\ timers' = [timers EXCEPT !.update = @ - 1]
        /\ botState' = [botState EXCEPT !.serverConfigured = TRUE]
        /\ bots' = BotsWithNew(bots)
        /\ bot' = NextBotId
        /\ asked' = FALSE
        /\ last' = [Obs("updateTimer") EXCEPT !.create = "ok", !.opts = <<BotOptions>>]
        /\ UNCHANGED <<alive, loops, unhandled>>
     \/ \* mineflayer.createBot throws: nothing catches it
        /\ Exit([Obs("updateTimer") EXCEPT !.create = "threw", !.opts = <<BotOptions>>])
        /\ UNCHANGED asked
  /\ UNCHANGED <<config, lastValid, sticky>>

\* The callback of the 5-second timer of bot.on('end') (lines 120-129).
ReconnectTimer ==
  /\ timers.reconnect > 0
  /\ \/ /\ NextBotId <= MaxBots
        /\ timers' = [timers EXCEPT !.reconnect = @ - 1]
        /\ bots' = BotsWithNew(bots)
        /\ bot' = NextBotId
        /\ asked' = FALSE
        /\ last' = [Obs("reconnectTimer") EXCEPT !.create = "ok", !.opts = <<BotOptions>>]
     \/ \* createNewBot throws: caught, try again in 10 seconds
        /\ timers.retry < MaxPending
        /\ timers' = [timers EXCEPT !.reconnect = @ - 1, !.retry = @ + 1]
        /\ last' = [Obs("reconnectTimer") EXCEPT !.create = "threw", !.opts = <<BotOptions>>]
        /\ UNCHANGED <<bot, bots, asked>>
  /\ UNCHANGED <<alive, config, botState, loops, unhandled, lastValid, sticky>>

\* The callback of the 10-second timer of line 127.
RetryTimer ==
  /\ timers.retry > 0
  /\ \/ /\ NextBotId <= MaxBots
        /\ timers' = [timers EXCEPT !.retry = @ - 1]
        /\ bots' = BotsWithNew(bots)
        /\ bot' = NextBotId
        /\ asked' = FALSE
        /\ last' = [Obs("retryTimer") EXCEPT !.create = "ok", !.opts = <<BotOptions>>]
        /\ UNCHANGED <<alive, botState, loops, unhandled>>
     \/ /\ Exit([Obs("retryTimer") EXCEPT !.create = "threw", !.opts = <<BotOptions>>])
        /\ UNCHANGED asked
  /\ UNCHANGED <<config, lastValid, sticky>>

\* ------------------------------------------------------- patrol
\* getRandomPoint taking the radius for half of the distance to draw from.
GetRandomPoint_Diameter(a, f) ==
  Pt(botState.center.x + (a[1] * f * 2 * Radius) \div (5 * 4),
     botState.center.y,
     botState.center.z + (a[2] * f * 2 * Radius) \div (5 * 4))

\* getRandomPoint, for Math.random() * 2 PI = a and Math.random() = f / 4.
GetRandomPoint(a, f) ==
  Pt(botState.center.x + (a[1] * f * Radius) \div (5 * 4),
     botState.center.y,
     botState.center.z + (a[2] * f * Radius) \div (5 * 4))

\* moveToPosition up to its await: the target is handed to
\* bot.pathfinder.goto, unless the global bot has no pathfinder.  (The target
\* is also stored in botState.currentTarget, which nothing ever reads: the
\* model keeps it in the observation of the callback only.)
GotoIssued == bot # 0 /\ bots[bot].pathfinder

GotoOf(target) == IF GotoIssued THEN <<target>> ELSE <<>>

\* The observation of a call of patrol() that passes its first test.
PatrolObs(obs, a, f) ==
  [obs EXCEPT !.point = <<GetRandomPoint(a, f)>>,
              !.goto = GotoOf(GetRandomPoint(a, f)),
              !.note = "patrol"]

\* The test of startPatrolling() without its test of connected.
Starts_IgnoresConnection == ~botState.isPatrolling

\* The test of startPatrolling().
Starts == botState.connected /\ ~botState.isPatrolling

\* startPatrolling(), with patrol() up to its first await.
StartPatrolling ==
  IF Starts
  THEN /\ LiveLoops < MaxLoops
       /\ botState' = [botState EXCEPT !.isPatrolling = TRUE]
       /\ loops' = [loops EXCEPT !.move1 = @ + 1]
  ELSE UNCHANGED <<botState, loops>>

StartObs(obs, a, f) == IF Starts THEN PatrolObs(obs, a, f) ELSE obs

\* stopPatrolling()
StopPatrolling == botState' = [botState EXCEPT !.isPatrolling = FALSE]

\* The callback of the 2-second timer of bot.on('spawn') (lines 83-86).
AutoStartTimer(a, f) ==
  /\ timers.autostart > 0
  /\ timers' = [timers EXCEPT !.autostart = @ - 1]
  /\ StartPatrolling
  /\ last' = StartObs(Obs("autoStart"), a, f)
  /\ UNCHANGED <<alive, config, bot, bots, unhandled, lastValid, sticky, asked>>

\* patrol() in which a rejected goto ends the loop (moveToPosition without its
\* try and catch, patrol() without its retry).
PointReached_FailureEndsLoop(ok) ==
  /\ loops.move1 > 0
  /\ loops' = IF ok THEN [loops EXCEPT !.move1 = @ - 1, !.wait1 = @ + 1]
                     ELSE [loops EXCEPT !.move1 = @ - 1]
  /\ last' = [Obs("pointReached") EXCEPT !.note = IF ok THEN "resolved" ELSE "rejected"]
  /\ UNCHANGED <<alive, config, botState, bot, bots, timers, unhandled,
                 lastValid, sticky, asked>>

\* patrol() after `await moveToPosition(randomPoint)`: the goto has resolved,
\* or it was rejected and moveToPosition caught the error, or there was no
\* pathfinder.  The loop goes on to its 2-second wait.
PointReached(ok) ==
  /\ loops.move1 > 0
  /\ loops' = [loops EXCEPT !.move1 = @ - 1, !.wait1 = @ + 1]
  /\ last' = [Obs("pointReached") EXCEPT !.note = IF ok THEN "resolved" ELSE "rejected"]
  /\ UNCHANGED <<alive, config, botState, bot, bots, timers, unhandled,
                 lastValid, sticky, asked>>

\* patrol() after its 2-second wait: moveToCenter().
ReturnToCenter ==
  /\ loops.wait1 > 0
  /\ loops' = [loops EXCEPT !.wait1 = @ - 1, !.move2 = @ + 1]
  /\ last' = [Obs("returnToCenter") EXCEPT !.goto = GotoOf(botState.center)]
  /\ UNCHANGED <<alive, config, botState, bot, bots, timers, unhandled,
                 lastValid, sticky, asked>>

\* patrol() after `await moveToCenter()`: on to its 3-second wait.
CenterReached(ok) ==
  /\ loops.move2 > 0
  /\ loops' = [loops EXCEPT !.move2 = @ - 1, !.wait2 = @ + 1]
  /\ last' = [Obs("centerReached") EXCEPT !.note = IF ok THEN "resolved" ELSE "rejected"]
  /\ UNCHANGED <<alive, config, botState, bot, bots, timers, unhandled,
                 lastValid, sticky, asked>>

\* patrol() after its 3-second wait: the next cycle (patrol() called again, up
\* to its first await), or the end of the loop.  (The catch of patrol(), lines
\* 272-281, is never entered: moveToPosition catches what goto rejects with,
\* and bot is defined whenever patrol() runs.)
NextCycle(a, f) ==
  /\ loops.wait2 > 0
  /\ IF botState.connected /\ botState.isPatrolling
     THEN /\ loops' = [loops EXCEPT !.wait2 = @ - 1, !.move1 = @ + 1]
          /\ last' = PatrolObs(Obs("nextCycle"), a, f)
     ELSE /\ loops' = [loops EXCEPT !.wait2 = @ - 1]
          /\ last' = [Obs("nextCycle") EXCEPT !.note = "ended"]
  /\ UNCHANGED <<alive, config, botState, bot, bots, timers, unhandled,
                 lastValid, sticky, asked>>

\* ------------------------------------------------------- HTTP API
IsNumber(v) == v.t = "number"

\* POST /api/set-center
SetCenter(body) ==
  /\ IF IsNumber(body.x) /\ IsNumber(body.y) /\ IsNumber(body.z)
     THEN LET c == Pt(body.x.n, body.y.n, body.z.n)
          IN  /\ botState' = [botState EXCEPT !.center = c]
              \* moveToCenter(): with no bot, bot.pathfinder is a TypeError,
              \* which rejects the promise nobody awaits
              /\ unhandled' = (bot = 0)
              /\ last' = [Obs("setCenter") EXCEPT
                            !.goto = GotoOf(c),
                            !.note = IF bot = 0 THEN "threw" ELSE "valid",
                            !.status = 200,
                            !.body = <<botState'.center>>]
     ELSE /\ last' = [Obs("setCenter") EXCEPT !.note = "invalid", !.status = 400]
          /\ UNCHANGED <<botState, unhandled>>
  /\ UNCHANGED <<alive, config, bot, bots, timers, loops, lastValid, sticky, asked>>

\* The report of an unhandled rejection, once the callback that caused it has
\* returned: Node 15 and later throw it as an uncaught exception, earlier
\* versions print a warning.
ReportRejection ==
  /\ unhandled
  /\ \/ Exit(Obs("unhandledRejection"))
     \/ /\ unhandled' = FALSE
        /\ last' = [Obs("unhandledRejection") EXCEPT !.note = "warning"]
        /\ UNCHANGED <<alive, botState, bot, bots, timers, loops>>
  /\ UNCHANGED <<config, lastValid, sticky, asked>>

\* POST /api/toggle-patrol
TogglePatrol(a, f) ==
  /\ IF botState.isPatrolling
     THEN StopPatrolling /\ UNCHANGED loops
     ELSE StartPatrolling
  /\ last' = [(IF botState.isPatrolling
               THEN [Obs("toggle") EXCEPT !.note = "stopped"]
               ELSE StartObs(Obs("toggle"), a, f))
              EXCEPT !.status = 200, !.body = <<botState'.isPatrolling>>]
  /\ UNCHANGED <<alive, config, bot, bots, timers, unhandled, lastValid, sticky, asked>>

\* !v of JavaScript
Falsy(v) ==
  \/ v.t = "undefined"
  \/ v.t = "number" /\ v.n = 0
  \/ v.t = "string" /\ v.s = <<>>

IsSpace(c) == c = " "

RECURSIVE TrimStart(_)
TrimStart(s) == IF s # <<>> /\ IsSpace(Head(s)) THEN TrimStart(Tail(s)) ELSE s

RECURSIVE TrimEnd(_)
TrimEnd(s) ==
  IF s # <<>> /\ IsSpace(s[Len(s)]) THEN TrimEnd(SubSeq(s, 1, Len(s) - 1)) ELSE s

\* String.prototype.trim
Trim(s) == TrimEnd(TrimStart(s))

InvalidHost(host) == Falsy(host) \/ host.t # "string" \/ Trim(host.s) = <<>>

InvalidPort(port) == Falsy(port) \/ port.t # "number" \/ port.n < 1 \/ port.n > MaxPort

\* POST /api/update-server; written tells whether fs.writeFileSync returns.
\* bot.quit() closes the connection of a bot that has not ended: its 'end'
\* event follows (BotEnd).
UpdateServer(host, port, written) ==
  /\ sticky' = FALSE
  /\ asked' = TRUE
  /\ IF InvalidHost(host) \/ InvalidPort(port)
     THEN /\ last' = [Obs("updateServer") EXCEPT !.note = "invalid", !.status = 400]
          /\ UNCHANGED <<config, botState, timers, lastValid>>
     ELSE /\ config' = [host |-> Trim(host.s), port |-> port.n]
          /\ lastValid' = <<[host |-> host.s, port |-> port.n]>>
          /\ IF written
             THEN /\ timers.update < MaxPending
                  /\ botState' =
                       IF bot # 0
                       THEN [botState EXCEPT !.switchingServers = TRUE,
                                             !.connected = FALSE,
                                             !.isPatrolling = FALSE]
                       ELSE [botState EXCEPT !.switchingServers = TRUE]
                  /\ timers' = [timers EXCEPT !.update = @ + 1]
                  /\ last' = [Obs("updateServer") EXCEPT !.note = "switching",
                                !.quit = bot, !.status = 200]
             ELSE /\ last' = [Obs("updateServer") EXCEPT !.note = "write failed",
                                !.status = 500]
                  /\ UNCHANGED <<botState, timers>>
  /\ UNCHANGED <<alive, bot, bots, loops, unhandled>>

\* POST /api/disconnect
Disconnect ==
  /\ botState' = [botState EXCEPT !.serverConfigured = FALSE,
                                  !.connected = FALSE,
                                  !.isPatrolling = FALSE,
                                  !.switchingServers = TRUE]
  /\ sticky' = TRUE
  /\ asked' = TRUE
  /\ last' = [Obs("disconnect") EXCEPT !.quit = bot, !.status = 200]
  /\ UNCHANGED <<alive, config, bot, bots, timers, loops, unhandled, lastValid>>

\* ------------------------------------------------------- specifications
\* The inputs of a specification: the raw positions the server sends, the
\* bodies of set-center, the host and port fields of update-server, the
\* outcomes of fs.writeFileSync and the values of Math.random().
AllInputs ==
  [raw |-> RawPositions, centers |-> CenterBodies, hosts |-> HostInputs,
   ports |-> PortInputs, written |-> BOOLEAN, angles |-> Angles,
   fractions |-> Fractions]

\* One input of each kind that the lifecycle tells apart.
LifecycleInputs ==
  [raw |-> { Pt(45, 0, -41) },
   centers |-> { [x |-> Num(0), y |-> Num(0), z |-> Num(0)],
                 [x |-> Num(0), y |-> Num(0), z |-> Undef] },
   hosts |-> { Str(<<" ">>), Str(<<" ", "b", " ">>) },
   ports |-> { Num(1) },
   written |-> BOOLEAN,
   angles |-> { <<3, 4>> },
   fractions |-> { 3 }]

\* A callback runs when the process is alive and no rejection is waiting to
\* be reported (the report comes before any other callback).
Running == alive /\ ~unhandled

Rejection == alive /\ ReportRejection

\* The program: every request, event and timer, in every order.
Next ==
  \/ \E body \in LifecycleInputs.centers : Running /\ SetCenter(body)
  \/ \E a \in LifecycleInputs.angles, f \in LifecycleInputs.fractions :
       Running /\ TogglePatrol(a, f)
  \/ \E host \in LifecycleInputs.hosts, port \in LifecycleInputs.ports,
        written \in LifecycleInputs.written :
       Running /\ UpdateServer(host, port, written)
  \/ Running /\ Disconnect
  \/ \E b \in BotIds : Running /\ BotEnd(b)
  \/ \E b \in BotIds : Running /\ BotError(b)
  \/ \E b \in BotIds : Running /\ PluginsInjected(b)
  \/ \E b \in BotIds, raw \in LifecycleInputs.raw : Running /\ BotSpawn(b, raw)
  \/ \E b \in BotIds, raw \in LifecycleInputs.raw : Running /\ BotMove(b, raw)
  \/ Running /\ UpdateTimer
  \/ Running /\ ReconnectTimer
  \/ Running /\ RetryTimer
  \/ \E a \in LifecycleInputs.angles, f \in LifecycleInputs.fractions :
       Running /\ AutoStartTimer(a, f)
  \/ \E ok \in BOOLEAN : Running /\ PointReached(ok)
  \/ Running /\ ReturnToCenter
  \/ \E ok \in BOOLEAN : Running /\ CenterReached(ok)
  \/ \E a \in LifecycleInputs.angles, f \in LifecycleInputs.fractions :
       Running /\ NextCycle(a, f)
  \/ Rejection

Spec == Init /\ [][Next]_vars

\* The program on its first connection, as long as that connection does not
\* end: one update-server request is answered with a switch, and the bot it
\* creates stays.  The inputs are all of AllInputs.
FirstConnection ==
  \/ \E body \in AllInputs.centers : Running /\ SetCenter(body)
  \/ \E a \in AllInputs.angles, f \in AllInputs.fractions :
       Running /\ TogglePatrol(a, f)
  \/ \E host \in AllInputs.hosts, port \in AllInputs.ports,
        written \in AllInputs.written :
       /\ Running
       /\ bot = 0
       /\ timers.update = 0
       /\ UpdateServer(host, port, written)
  \/ Running /\ UpdateTimer
  \/ Running /\ BotError(1)
  \/ Running /\ PluginsInjected(1)
  \/ \E raw \in AllInputs.raw : Running /\ BotSpawn(1, raw)
  \/ \E raw \in AllInputs.raw : Running /\ BotMove(1, raw)
  \/ \E a \in AllInputs.angles, f \in AllInputs.fractions :
       Running /\ AutoStartTimer(a, f)
  \/ \E ok \in BOOLEAN : Running /\ PointReached(ok)
  \/ Running /\ ReturnToCenter
  \/ \E ok \in BOOLEAN : Running /\ CenterReached(ok)
  \/ \E a \in AllInputs.angles, f \in AllInputs.fractions :
       Running /\ NextCycle(a, f)
  \/ Rejection

SpecFirst == Init /\ [][FirstConnection]_vars

\* The patrol steps happen: a timer that is set fires, and a promise of
\* bot.pathfinder.goto is settled (the goal is reached, or the pathfinder gives
\* up, times out or is given another goal).
PatrolFairness ==
  /\ WF_vars(\E ok \in BOOLEAN : PointReached(ok))
  /\ WF_vars(ReturnToCenter)
  /\ WF_vars(\E ok \in BOOLEAN : CenterReached(ok))
  /\ WF_vars(\E a \in AllInputs.angles, f \in AllInputs.fractions : NextCycle(a, f))

FairSpecFirst == SpecFirst /\ PatrolFairness

\* ------------------------------------------------------- properties
\* C1: when the 'end' event of the current bot fires and no update-server or
\* disconnect request was made since that bot was created, a reconnection is
\* scheduled (the 5-second timer that calls createNewBot is pending).
C1_EndSchedulesReconnect ==
  (last.op = "end" /\ last.b = bot /\ ~asked) => timers.reconnect > 0

\* C2 as stated: every toggle-patrol request flips isPatrolling and answers
\* the value isPatrolling has after the request.
C2_ToggleFlips ==
  [][last'.op = "toggle" =>
       /\ botState'.isPatrolling = ~botState.isPatrolling
       /\ last'.body = <<botState'.isPatrolling>>]_vars

\* C2 amended: a toggle-patrol request turns isPatrolling off when it is on,
\* turns it on when it is off and the bot is connected, and leaves it off when
\* the bot is not connected; the response carries the value after the request.
C2_ToggleFlipsWhenConnected ==
  [][last'.op = "toggle" =>
       /\ botState'.isPatrolling = (~botState.isPatrolling /\ botState.connected)
       /\ last'.status = 200
       /\ last'.body = <<botState'.isPatrolling>>]_vars

C2_Witness ==
  /\ last.op = "toggle"
  /\ last.note = "patrol"
  /\ botState.isPatrolling
  /\ last.body = <<TRUE>>

\* The host of a request body without its leading and trailing blanks.
Trimmed(h) ==
  LET inner == { i \in 1 .. Len(h) : h[i] # " " }
  IN  IF inner = {} THEN <<>>
      ELSE SubSeq(h, CHOOSE i \in inner : \A j \in inner : i <= j,
                     CHOOSE i \in inner : \A j \in inner : j <= i)

\* C3: the callback of the 2-second timer of a successful update-server request
\* creates a bot, for the trimmed host and the port of the most recent valid
\* request, and serverConfigured is true from then on.
C3_TimerCreatesBot ==
  last.op = "updateTimer" =>
    /\ last.create = "ok"
    /\ bot # 0 /\ Live(bot)
    /\ botState.serverConfigured
    /\ lastValid # <<>>
    /\ last.opts = <<[host |-> Trimmed(lastValid[1].host), port |-> lastValid[1].port]>>

\* C4: a point of getRandomPoint is at horizontal distance at most the radius
\* from the center, and at the height of the center.
C4_PointWithinRadius ==
  last.point # <<>> =>
    /\ Dist2(last.point[1], botState.center) <= Radius * Radius
    /\ last.point[1].y = botState.center.y

C4_Witness ==
  /\ last.point # <<>>
  /\ last.point[1].x # botState.center.x
  /\ last.point[1].z # botState.center.z

\* C5: a set-center request with three numbers sets the center, starts a move
\* to it and answers success with it, in every state; any other request is
\* answered 400, changes no center and starts no move.
C5_SetCenterMoves ==
  [][last'.op = "setCenter" =>
       IF last'.status = 200
       THEN /\ last'.body = <<botState'.center>>
            /\ last'.goto = <<botState'.center>>
            /\ ~unhandled'
       ELSE /\ last'.status = 400
            /\ botState'.center = botState.center
            /\ last'.goto = <<>>]_vars

\* v rounded to a tenth of a block, halves going up.
IsRounded(r, v) == r % 2 = 0 /\ r - v \in {0, 1}

\* p is farther than the radius and 2 blocks from c, horizontally.
Far(p, c) ==
  (p.x - c.x) * (p.x - c.x) + (p.z - c.z) * (p.z - c.z)
    > (Radius + 2 * Unit) * (Radius + 2 * Unit)

C7_CycleOrder ==
  [][/\ last'.op = "pointReached" =>
          loops' = [loops EXCEPT !.move1 = @ - 1, !.wait1 = @ + 1]
     /\ last'.op = "returnToCenter" =>
          loops' = [loops EXCEPT !.wait1 = @ - 1, !.move2 = @ + 1]
     /\ last'.op = "centerReached" =>
          loops' = [loops EXCEPT !.move2 = @ - 1, !.wait2 = @ + 1]
     /\ (last'.op = "nextCycle" /\ botState.connected /\ botState.isPatrolling) =>
          /\ loops' = [loops EXCEPT !.wait2 = @ - 1, !.move1 = @ + 1]
          /\ last'.point # <<>>
     /\ (LiveLoops' < LiveLoops /\ alive') =>
          last'.op = "nextCycle" /\ ~(botState.connected /\ botState.isPatrolling)]_vars

C7_FailureLeadsToNextCycle ==
  (/\ last.op \in {"pointReached", "centerReached"}
   /\ last.note = "rejected"
   /\ botState.connected /\ botState.isPatrolling)
    ~> (\/ last.op = "nextCycle" /\ last.note = "patrol"
        \/ ~(botState.connected /\ botState.isPatrolling))

C7_PatrolContinues == C7_CycleOrder /\ C7_FailureLeadsToNextCycle

C7_Witness ==
  /\ last.op = "pointReached"
  /\ last.note = "rejected"
  /\ botState.connected /\ botState.isPatrolling
  /\ loops.wait1 > 0

\* C8: at most one activation of the patrol loop is live.
C8_AtMostOneLoop == LiveLoops <= 1

\* C9: at most one bot that was created has not ended.
C9_AtMostOneLiveBot == Cardinality(LiveBots) <= 1

\* C10: from a disconnect request until the next update-server request,
\* serverConfigured, connected and isPatrolling are false and no callback
\* calls createNewBot.
C10_DisconnectSticky ==
  sticky =>
    /\ ~botState.serverConfigured
    /\ ~botState.connected
    /\ ~botState.isPatrolling
    /\ last.create = "no"

\* C11: the patrol loop calls moveToPosition (for the random point, at the
\* start of a cycle, or for the return to the center, after the 2-second
\* wait) only in a state where connected and isPatrolling are both true.
C11_MovesOnlyWhilePatrolling ==
  (\/ last.op = "returnToCenter"
   \/ last.op \in {"toggle", "autoStart", "nextCycle"} /\ last.note = "patrol")
  => botState.connected /\ botState.isPatrolling

\* C12: after a 'spawn' event the process runs on with connected true and
\* center at the position the bot spawned at.
C12_SpawnSetsCenter ==
  last.op = "spawn" =>
    /\ alive
    /\ botState.connected
    /\ botState.center = bots[last.b].pos

\* C12: when the 2-second timer of a spawn has fired and the connection of
\* the bot has not ended, isPatrolling is true.
C12_AutoStartPatrols ==
  (last.op = "autoStart" /\ bot # 0 /\ bots[bot].status = "spawned")
  => botState.isPatrolling

\* C12: every spawn sets connected and the center, and its timer turns the
\* patrol on unless the connection has ended.
C12_SpawnStartsPatrol == C12_SpawnSetsCenter /\ C12_AutoStartPatrols

\* C13: until the first valid update-server request no bot exists, no timer
\* that creates one is pending, connected and isPatrolling are false and no
\* callback (set-center, toggle-patrol, disconnect and invalid update-server
\* among them) has called createNewBot.
C13_NoConnectionBeforeUpdate ==
  lastValid = <<>> =>
    /\ bot = 0
    /\ \A b \in BotIds : bots[b].status = "none"
    /\ timers = NoTimers
    /\ ~botState.connected
    /\ ~botState.isPatrolling
    /\ last.create = "no"

\* An invalid update-server request was answered 400 before any valid one.
C13_Witness ==
  /\ lastValid = <<>>
  /\ last.op = "updateServer"
  /\ last.note = "invalid"
  /\ last.status = 400
  /\ bot = 0

\* C14: isPatrolling is true only while connected is true.
C14_PatrollingImpliesConnected == botState.isPatrolling => botState.connected

\* C14: a step that sets connected to false leaves isPatrolling false, and a
\* step that sets isPatrolling to true was taken with connected true and
\* leaves it true.
C14_Steps ==
  /\ (botState.connected /\ ~botState'.connected) => ~botState'.isPatrolling
  /\ (~botState.isPatrolling /\ botState'.isPatrolling)
       => botState.connected /\ botState'.connected

\* C14: in every reachable state isPatrolling implies connected; every step
\* that clears connected clears isPatrolling, and isPatrolling is set only
\* when connected.
C14_PatrolNeedsConnection ==
  [](C14_PatrollingImpliesConnected) /\ [][C14_Steps]_vars

\* An 'error' event has arrived during a patrol: both flags are false while
\* the patrol loop is still running.
C14_Witness ==
  /\ last.op = "error"
  /\ LiveLoops > 0
  /\ ~botState.connected
  /\ ~botState.isPatrolling

====
